---- MODULE Spec2Model ----
(***************************************************************************)
(* The embedding-indexed image store of foleydang/ImageSearch:             *)
(* internal/service (UploadImage, DeleteImage, GetImage,                   *)
(* SearchImagesByImage) over internal/repository (the images and           *)
(* image_embeddings tables) and the image directory.                       *)
(*                                                                         *)
(* Every request of the HTTP layer runs in its own goroutine, so a request *)
(* is a process whose steps are the I/O calls of its handler; each call to *)
(* the database or the file system is one atomic step and may fail.        *)
(***************************************************************************)
EXTENDS Integers, Sequences, FiniteSets, TLC

----------------------------------------------------------------------------
(* Bounds of the model *)

\* concurrent UploadImage requests
MaxUploads == 2
\* concurrent DeleteImage requests
MaxDeletes == 2
\* concurrent SearchImagesByImage requests
MaxSearches == 1
\* rows of image_embeddings in the stores the search function is applied to
MaxStored == 3
\* largest limit passed to SearchSimilarImages in SearchSpec
MaxK == 3
\* rows of images in the stores the read operations are applied to
MaxImages == 12
\* largest page number of a ListImages request
MaxPage == 3

----------------------------------------------------------------------------
(* Program constants *)

\* uuid.Nil, the zero value of uuid.UUID
NilUUID == 0
\* resize.Resize(800, 0, ...)
CanonicalWidth == 800
\* SearchSimilarImages(embedding, 10)
DefaultLimit == 10
\* math.MaxFloat32, in the model's distance unit (larger than any distance)
MaxFloat32 == 2000000000
\* pageSize > 100
MaxPageSize == 100
\* pageSize = 10
DefaultPageSize == 10
\* distances are kept in thousandths: Scale * Scale multiplies the sum of squares
Scale == 1000

Uploads == 1..MaxUploads
Deletes == 1..MaxDeletes
Searches == 1..MaxSearches

\* No value: a nil pointer, an unset local
None == [none |-> TRUE]
\* filePath before it is assigned
NoPath == <<>>

----------------------------------------------------------------------------
(* Uploaded files.  A file is what image.Decode makes of it: its format    *)
(* ("bad" when it does not decode), its bounds and the mean colour of its  *)
(* pixels, which is all generateEmbedding reads.                           *)

Inputs ==
    { [name |-> "a.jpg", format |-> "jpeg", w |-> 1600, h |-> 1200, mean |-> <<0, 0, 0>>],
      [name |-> "b.png", format |-> "png",  w |-> 400,  h |-> 200,  mean |-> <<1, 0, 0>>],
      [name |-> "c.txt", format |-> "bad",  w |-> 0,    h |-> 0,    mean |-> <<>>] }

\* image.Decode: the jpeg and png decoders are the registered ones
Decodes(in) == in.format \in {"jpeg", "png"}

\* resize.Resize(800, 0, img, Lanczos3): width 800, height in proportion,
\* rounded to nearest; the input itself when it already has that size
Resize(img) ==
    LET height == (2 * CanonicalWidth * img.h + img.w) \div (2 * img.w)
    IN  IF img.w = CanonicalWidth /\ img.h = height
        THEN img
        ELSE [img EXCEPT !.w = CanonicalWidth, !.h = height]

\* jpeg.Encode / png.Encode: the bytes written for an image (a stand-in for
\* the encoders: a jpeg of quality 90 is smaller than the png of the same size)
Encode(extension, img) ==
    [w |-> img.w, h |-> img.h,
     size |-> IF extension = "png" THEN (img.w * img.h) \div 100
                                   ELSE (img.w * img.h) \div 1000]

\* os.Create: an empty file
EmptyFile == [w |-> 0, h |-> 0, size |-> 0]

\* generateEmbedding: the mean colour of the image, 3 components
generateEmbedding(img) == <<img.mean[1], img.mean[2], img.mean[3]>>

\* uuid.New(): request u draws an identifier nobody else holds
NewUUID(u) == u

\* filepath.Join(imageDir, uuid.New().String() + "." + extension): a path
\* nobody else holds
NewFilePath(u) == <<u>>
Paths == {NewFilePath(u) : u \in Uploads}

----------------------------------------------------------------------------
(* The persisted blob of an embedding: json.Marshal / json.Unmarshal *)

\* json.Marshal([]float32): a JSON array, always well formed
Marshal(vec) == [json |-> "array", items |-> vec]

\* json.Unmarshal into []float32 succeeds on a JSON array of numbers only
UnmarshalOk(blob) == blob.json = "array"
Unmarshal(blob) == blob.items

VARIABLES
    images,      \* table images: the rows, in insertion order
    embeddings,  \* table image_embeddings: the rows, in insertion order
    files,       \* the image directory: path -> the file's content
    up,          \* the UploadImage requests
    del,         \* the DeleteImage requests
    srch,        \* the SearchImagesByImage requests
    lastRepoDelete,  \* history: the last call of repository DeleteImage, its result
    read         \* the GetImage or ListImages request

vars == <<images, embeddings, files, up, del, srch, lastRepoDelete, read>>

----------------------------------------------------------------------------
(* internal/repository *)

ImageIDs(tbl) == {tbl[i].ID : i \in 1..Len(tbl)}

\* First(&image, "id = ?", id)
HasImage(tbl, id) == id \in ImageIDs(tbl)
ImageByID(tbl, id) == tbl[CHOOSE i \in 1..Len(tbl) : tbl[i].ID = id]

\* Image.BeforeCreate: a nil ID is replaced by a fresh one
BeforeCreateImage(image, u) ==
    IF image.ID = NilUUID THEN [image EXCEPT !.ID = NewUUID(u)] ELSE image

\* CreateImage: DB.Create(image); the primary key is unique
CreateImageOk(tbl, image) == ~HasImage(tbl, image.ID)
CreateImage(tbl, image) == Append(tbl, image)

\* CreateImageEmbedding: the row is built from a TempEmbedding, a type with no
\* BeforeCreate hook, so the row's ID is the ID the caller set
TempEmbedding(embedding) ==
    [ID |-> embedding.ID, ImageID |-> embedding.ImageID,
     Embedding |-> Marshal(embedding.Embedding)]

\* DB.Table("image_embeddings").Create(&temp): id is the primary key
CreateImageEmbeddingOk(tbl, embedding) ==
    \A i \in 1..Len(tbl) : tbl[i].ID # TempEmbedding(embedding).ID
CreateImageEmbedding(tbl, embedding) == Append(tbl, TempEmbedding(embedding))

\* DeleteImage, the committed transaction: the embeddings of the image, then
\* the image; deleting no row is no error
DeleteEmbeddingsOf(tbl, id) ==
    LET Keep(e) == e.ImageID # id IN SelectSeq(tbl, Keep)
\* the bug of a transaction that forgets the image row
DeleteImageRowKept(tbl, id) == tbl
DeleteImageRow(tbl, id) ==
    LET Keep(r) == r.ID # id IN SelectSeq(tbl, Keep)

----------------------------------------------------------------------------
(* The requests *)

UploadIdle == [pc |-> "idle"]
DeleteIdle == [pc |-> "idle"]
SearchIdle == [pc |-> "idle"]
ReadIdle == [pc |-> "idle"]

Init ==
    /\ images = <<>>
    /\ embeddings = <<>>
    /\ files = [p \in Paths |-> None]
    /\ up = [u \in Uploads |-> UploadIdle]
    /\ del = [d \in Deletes |-> DeleteIdle]
    /\ srch = [s \in Searches |-> SearchIdle]
    /\ lastRepoDelete = None
    /\ read = ReadIdle

----------------------------------------------------------------------------
(* The file system *)

FileExists(fs, path) == fs[path] # None

\* os.Remove can succeed only on a file that exists
RemoveFile(fs, path) == [fs EXCEPT ![path] = None]

----------------------------------------------------------------------------
(* imageService.UploadImage.  Reads of the database succeed; every write   *)
(* to it and every file operation either succeeds or fails.  The file of   *)
(* an upload has a path no other request knows before the image row is     *)
(* written, so the steps up to there are one action; from there on every   *)
(* I/O call is an action of its own.                                       *)

UploadDone(u, failedAt) ==
    [pc |-> "done", err |-> failedAt # "none", failedAt |-> failedAt,
     path |-> up[u].path, id |-> up[u].id,
     image |-> IF failedAt = "none" THEN up[u].image ELSE None]

UploadFailed(failedAt, path) ==
    [pc |-> "done", err |-> TRUE, failedAt |-> failedAt,
     path |-> path, id |-> NilUUID, image |-> None]

\* the locals still read once a rollback has begun
UploadRollback(u, pc) ==
    [pc |-> pc, path |-> up[u].path, id |-> up[u].id]

\* the bug of a record that takes the bounds of the upload, not of the
\* resized image
NewImageOfUpload(in, path, fileInfo) ==
    [ID |-> NilUUID, FileName |-> in.name, FilePath |-> path,
     Extension |-> in.format, Width |-> in.w, Height |-> in.h,
     Size |-> fileInfo.size]

\* lines 112-134: the bounds of the resized image, dst.Stat(), the record
NewImage(in, path, fileInfo) ==
    [ID |-> NilUUID, FileName |-> in.name, FilePath |-> path,
     Extension |-> in.format,
     Width |-> Resize(in).w, Height |-> Resize(in).h,
     Size |-> fileInfo.size]

\* lines 56-134: read and image.Decode with the format check; os.Create;
\* resize and jpeg.Encode or png.Encode; dst.Stat.  An error after os.Create
\* returns with the file left where it is
UploadWriteFile(u) ==
    /\ up[u].pc = "idle"
    /\ \E in \in Inputs :
         LET path == NewFilePath(u)
             written == Encode(in.format, Resize(in))
         IN  IF ~Decodes(in) \/ (in.format # "jpeg" /\ in.format # "png")
             THEN /\ up' = [up EXCEPT ![u] = UploadFailed("decode", NoPath)]
                  /\ UNCHANGED files
             ELSE \/ /\ up' = [up EXCEPT ![u] = UploadFailed("create", NoPath)]
                     /\ UNCHANGED files
                  \/ /\ up' = [up EXCEPT ![u] = UploadFailed("encode", path)]
                     /\ files' = [files EXCEPT ![path] = EmptyFile]
                  \/ /\ up' = [up EXCEPT ![u] = UploadFailed("stat", path)]
                     /\ files' = [files EXCEPT ![path] = written]
                  \/ /\ up' = [up EXCEPT ![u] =
                                 [pc |-> "createImage", in |-> in, path |-> path,
                                  id |-> NilUUID,
                                  image |-> NewImage(in, path, written)]]
                     /\ files' = [files EXCEPT ![path] = written]
    /\ UNCHANGED <<images, embeddings, del, srch, lastRepoDelete, read>>

\* lines 137-142: imageRepo.CreateImage(image)
UploadCreateImage(u) ==
    /\ up[u].pc = "createImage"
    /\ LET image == BeforeCreateImage(up[u].image, u)
       IN  \/ /\ CreateImageOk(images, image)
              /\ images' = CreateImage(images, image)
              /\ up' = [up EXCEPT ![u].pc = "createEmbedding", ![u].image = image,
                                   ![u].id = image.ID]
           \/ /\ up' = [up EXCEPT ![u] = [UploadRollback(u, "removeFile")
                                              EXCEPT !.id = image.ID]]
              /\ UNCHANGED images
    /\ UNCHANGED <<embeddings, files, del, srch, lastRepoDelete, read>>

\* line 140: os.Remove(filePath), its error dropped
UploadRemoveFile(u) ==
    /\ up[u].pc = "removeFile"
    /\ \/ /\ FileExists(files, up[u].path)
          /\ files' = RemoveFile(files, up[u].path)
       \/ UNCHANGED files
    /\ up' = [up EXCEPT ![u] = UploadDone(u, "createImage")]
    /\ UNCHANGED <<images, embeddings, del, srch, lastRepoDelete, read>>

\* lines 145-153: the embedding record; its ID is never set
NewImageEmbedding(u) ==
    [ID |-> NilUUID, ImageID |-> up[u].image.ID,
     Embedding |-> generateEmbedding(Resize(up[u].in))]


\* lines 155-164: imageRepo.CreateImageEmbedding(imageEmbedding)
UploadCreateEmbedding(u) ==
    /\ up[u].pc = "createEmbedding"
    /\ \/ /\ CreateImageEmbeddingOk(embeddings, NewImageEmbedding(u))
          /\ embeddings' = CreateImageEmbedding(embeddings, NewImageEmbedding(u))
          /\ up' = [up EXCEPT ![u] = UploadDone(u, "none")]
       \/ /\ up' = [up EXCEPT ![u] = UploadRollback(u, "rollbackFile")]
          /\ UNCHANGED embeddings
    /\ UNCHANGED <<images, files, del, srch, lastRepoDelete, read>>

\* line 158: os.Remove(filePath), its error dropped
UploadRollbackFile(u) ==
    /\ up[u].pc = "rollbackFile"
    /\ \/ /\ FileExists(files, up[u].path)
          /\ files' = RemoveFile(files, up[u].path)
       \/ UNCHANGED files
    /\ up' = [up EXCEPT ![u].pc = "rollbackDB"]
    /\ UNCHANGED <<images, embeddings, del, srch, lastRepoDelete, read>>

\* repository DeleteImage: the transaction commits (err = FALSE), or fails and
\* changes nothing; the call is logged with whether the image existed
RepoDeleteImage(id, err) ==
    /\ IF err
       THEN UNCHANGED <<images, embeddings>>
       ELSE /\ embeddings' = DeleteEmbeddingsOf(embeddings, id)
            /\ images' = DeleteImageRow(images, id)
    /\ lastRepoDelete' = [found |-> HasImage(images, id), err |-> err]

\* line 159: imageRepo.DeleteImage(image.ID), its error dropped
UploadRollbackDB(u) ==
    /\ up[u].pc = "rollbackDB"
    /\ \E err \in BOOLEAN : RepoDeleteImage(up[u].id, err)
    /\ up' = [up EXCEPT ![u] = UploadDone(u, "createEmbedding")]
    /\ UNCHANGED <<files, del, srch, read>>

----------------------------------------------------------------------------
(* imageService.DeleteImage, one action per I/O call *)

DeleteDone(d, stage, err) ==
    [pc |-> "done", id |-> del[d].id, path |-> del[d].path, stage |-> stage,
     err |-> err]

\* lines 199-202: imageRepo.GetImageByID(id); gorm.ErrRecordNotFound when no
\* row has the id.  Of the image only FilePath is read afterwards
DeleteGetImage(d) ==
    /\ del[d].pc = "idle"
    /\ \E id \in {NewUUID(u) : u \in Uploads} :
         IF HasImage(images, id)
         THEN del' = [del EXCEPT ![d] =
                        [pc |-> "removeFile", id |-> id,
                         path |-> ImageByID(images, id).FilePath]]
         ELSE del' = [del EXCEPT ![d] =
                        [pc |-> "done", id |-> id, path |-> NoPath, stage |-> "get",
                         err |-> "NotFound"]]
    /\ UNCHANGED <<images, embeddings, files, up, srch, lastRepoDelete, read>>

\* lines 205-208: os.Remove(image.FilePath)
DeleteRemoveFile(d) ==
    /\ del[d].pc = "removeFile"
    /\ \/ /\ FileExists(files, del[d].path)
          /\ files' = RemoveFile(files, del[d].path)
          /\ del' = [del EXCEPT ![d].pc = "repoDelete"]
       \/ /\ del' = [del EXCEPT ![d] = DeleteDone(d, "removeFile", "StorageError")]
          /\ UNCHANGED files
    /\ UNCHANGED <<images, embeddings, up, srch, lastRepoDelete, read>>

\* lines 211-217: imageRepo.DeleteImage(id)
DeleteRepoDelete(d) ==
    /\ del[d].pc = "repoDelete"
    /\ \E err \in BOOLEAN :
         /\ RepoDeleteImage(del[d].id, err)
         /\ del' = [del EXCEPT ![d] = DeleteDone(d, "repoDelete",
                                        IF err THEN "PersistenceError" ELSE "nil")]
    /\ UNCHANGED <<files, up, srch, read>>

----------------------------------------------------------------------------
(* imageRepository.SearchSimilarImages *)

RECURSIVE SumSq(_, _, _)
SumSq(v1, v2, i) ==
    IF i > Len(v1) THEN 0
    ELSE (v1[i] - v2[i]) * (v1[i] - v2[i]) + SumSq(v1, v2, i + 1)

\* math.Sqrt: the largest r in lo..hi with r * r <= n
RECURSIVE SqrtIn(_, _, _)
SqrtIn(n, lo, hi) ==
    IF lo >= hi THEN lo
    ELSE LET mid == (lo + hi + 1) \div 2
         IN  IF mid * mid <= n THEN SqrtIn(n, mid, hi) ELSE SqrtIn(n, lo, mid - 1)
Sqrt(n) == SqrtIn(n, 0, 46340)

\* calculateEuclideanDistance, in thousandths; vectors of different lengths
\* are at distance math.MaxFloat32
calculateEuclideanDistance(v1, v2) ==
    IF Len(v1) # Len(v2) THEN MaxFloat32
    ELSE Sqrt(Scale * Scale * SumSq(v1, v2, 1))

\* lines 166-177: the rows decoded; a row whose blob does not parse leaves a
\* nil pointer in the slice
DecodeRows(tbl) ==
    [i \in 1..Len(tbl) |->
        IF UnmarshalOk(tbl[i].Embedding)
        THEN [ImageID |-> tbl[i].ImageID, Embedding |-> Unmarshal(tbl[i].Embedding)]
        ELSE None]

\* lines 185-192: one (imageID, distance) per decoded row
Distances(target, embs) ==
    [i \in 1..Len(embs) |->
        [imageID |-> embs[i].ImageID,
         distance |-> calculateEuclideanDistance(target, embs[i].Embedding)]]

\* lines 195-197: sort.Slice by distance.  sort.Slice is not stable: any
\* ascending arrangement of the entries may come out
Arrangements(n) ==
    {p \in [1..n -> 1..n] : \A i, j \in 1..n : i # j => p[i] # p[j]}
SortSlice(ds) ==
    {[i \in 1..Len(ds) |-> ds[p[i]]] :
        p \in {q \in Arrangements(Len(ds)) :
                 \A i \in 1..(Len(ds) - 1) :
                    ~(ds[q[i + 1]].distance < ds[q[i]].distance)}}

\* the bug of a cut that keeps the far end of the slice
TruncateTail(ds, limit) ==
    IF Len(ds) > limit THEN SubSeq(ds, Len(ds) - limit + 1, Len(ds)) ELSE ds

\* lines 200-202: distances[:limit]
Truncate(ds, limit) == IF Len(ds) > limit THEN SubSeq(ds, 1, limit) ELSE ds

SearchDone(s, images_, distances_, err) ==
    [pc |-> "done", err |-> err, images |-> images_, distances |-> distances_,
     target |-> srch[s].target, limit |-> srch[s].limit]

\* the bug of an empty scan reported as an error
SearchReturnedError(target, limit, images_, distances_, err) ==
    [pc |-> "done", err |-> TRUE, images |-> images_, distances |-> distances_,
     target |-> target, limit |-> limit]

SearchReturned(target, limit, images_, distances_, err) ==
    [pc |-> "done", err |-> err, images |-> images_, distances |-> distances_,
     target |-> target, limit |-> limit]

\* lines 160-202: the scan of image_embeddings, the distances (the nil pointer
\* of an unparsed row is dereferenced there: the request panics), the sort,
\* the cut
SearchScan(s, target, limit) ==
    LET embs == DecodeRows(embeddings)
    IN  IF \E i \in 1..Len(embs) : embs[i] = None
        THEN srch' = [srch EXCEPT ![s] =
                        [pc |-> "panic", target |-> target, limit |-> limit]]
        ELSE \E sorted \in SortSlice(Distances(target, embs)) :
               LET ranked == Truncate(sorted, limit)
               IN  srch' = [srch EXCEPT ![s] =
                              IF ranked = <<>>
                              THEN SearchReturned(target, limit, <<>>, <<>>, FALSE)
                              ELSE [pc |-> "join", target |-> target, limit |-> limit,
                                    ranked |-> ranked, images |-> <<>>,
                                    distances |-> <<>>]]

\* the bug of a join that returns the error of First
SearchJoinAbort(s) ==
    /\ srch[s].pc = "join"
    /\ LET d == Head(srch[s].ranked)
           rest == Tail(srch[s].ranked)
           images_ == Append(srch[s].images, ImageByID(images, d.imageID))
           distances_ == Append(srch[s].distances, d.distance)
       IN  srch' = [srch EXCEPT ![s] =
                      IF ~HasImage(images, d.imageID)
                      THEN SearchDone(s, <<>>, <<>>, TRUE)
                      ELSE IF rest = <<>>
                           THEN SearchDone(s, images_, distances_, FALSE)
                           ELSE [@ EXCEPT !.ranked = rest, !.images = images_,
                                          !.distances = distances_]]
    /\ UNCHANGED <<images, embeddings, files, up, del, lastRepoDelete, read>>

\* the bug of a distance appended before the image is looked up
SearchJoinKeepDistance(s) ==
    /\ srch[s].pc = "join"
    /\ LET d == Head(srch[s].ranked)
           rest == Tail(srch[s].ranked)
           images_ == IF HasImage(images, d.imageID)
                      THEN Append(srch[s].images, ImageByID(images, d.imageID))
                      ELSE srch[s].images
           distances_ == Append(srch[s].distances, d.distance)
       IN  srch' = [srch EXCEPT ![s] =
                      IF rest = <<>>
                      THEN SearchDone(s, images_, distances_, FALSE)
                      ELSE [@ EXCEPT !.ranked = rest, !.images = images_,
                                     !.distances = distances_]]
    /\ UNCHANGED <<images, embeddings, files, up, del, lastRepoDelete, read>>

\* lines 208-217: the next entry is joined to its image, and skipped when the
\* image is not found
SearchJoin(s) ==
    /\ srch[s].pc = "join"
    /\ LET d == Head(srch[s].ranked)
           rest == Tail(srch[s].ranked)
           images_ == IF HasImage(images, d.imageID)
                      THEN Append(srch[s].images, ImageByID(images, d.imageID))
                      ELSE srch[s].images
           distances_ == IF HasImage(images, d.imageID)
                         THEN Append(srch[s].distances, d.distance)
                         ELSE srch[s].distances
       IN  srch' = [srch EXCEPT ![s] =
                      IF rest = <<>>
                      THEN SearchDone(s, images_, distances_, FALSE)
                      ELSE [@ EXCEPT !.ranked = rest, !.images = images_,
                                     !.distances = distances_]]
    /\ UNCHANGED <<images, embeddings, files, up, del, lastRepoDelete, read>>

\* imageService.SearchImagesByImage, lines 221-253: decode, resize, embed, search
SearchImagesByImage(s) ==
    /\ srch[s].pc = "idle"
    /\ \E in \in Inputs :
         IF ~Decodes(in)
         THEN srch' = [srch EXCEPT ![s] =
                         SearchReturned(<<>>, DefaultLimit, <<>>, <<>>, TRUE)]
         ELSE SearchScan(s, generateEmbedding(Resize(in)), DefaultLimit)
    /\ UNCHANGED <<images, embeddings, files, up, del, lastRepoDelete, read>>

----------------------------------------------------------------------------
(* The service under concurrent requests *)

Next ==
    \/ \E u \in Uploads :
         \/ UploadWriteFile(u)
         \/ UploadCreateImage(u)
         \/ UploadRemoveFile(u)
         \/ UploadCreateEmbedding(u)
         \/ UploadRollbackFile(u)
         \/ UploadRollbackDB(u)
    \/ \E d \in Deletes :
         \/ DeleteGetImage(d)
         \/ DeleteRemoveFile(d)
         \/ DeleteRepoDelete(d)
    \/ \E s \in Searches :
         \/ SearchImagesByImage(s)
         \/ SearchJoin(s)

Spec == Init /\ [][Next]_vars

----------------------------------------------------------------------------
(* SearchSimilarImages as a function of the stored tables: the tables are  *)
(* drawn from a pool and never change, the target and the limit are the    *)
(* caller's.                                                               *)

\* the vectors a stored blob may hold: A, B and C of the ordering example, and
\* a vector of another length
StoredVectors == {<<0, 0, 0>>, <<1, 0, 0>>, <<10, 10, 10>>, <<0, 0>>}
\* a blob json.Unmarshal rejects
CorruptBlob == [json |-> "garbage", items |-> <<>>]
StoredBlobs == {Marshal(v) : v \in StoredVectors} \cup {CorruptBlob}
TargetVectors == {<<0, 0, 0>>, <<0, 0, 0, 0, 0>>}

\* row i of the tables: embedding i belongs to image i
StoredImage(i) ==
    [ID |-> i, FileName |-> "a.jpg", FilePath |-> <<i>>, Extension |-> "jpeg",
     Width |-> CanonicalWidth, Height |-> 600, Size |-> 480]
StoredEmbedding(i, blob) == [ID |-> i, ImageID |-> i, Embedding |-> blob]

\* the images table with the rows of `present` only, in insertion order
RECURSIVE StoredImages(_, _)
StoredImages(n, present) ==
    IF n = 0 THEN <<>>
    ELSE IF n \in present
         THEN Append(StoredImages(n - 1, present), StoredImage(n))
         ELSE StoredImages(n - 1, present)

SearchInit ==
    /\ \E n \in 0..MaxStored :
         /\ \E blobs \in [1..n -> StoredBlobs] :
              embeddings = [i \in 1..n |-> StoredEmbedding(i, blobs[i])]
         /\ \E present \in SUBSET (1..n) : images = StoredImages(n, present)
    /\ files = [p \in Paths |-> None]
    /\ up = [u \in Uploads |-> UploadIdle]
    /\ del = [d \in Deletes |-> DeleteIdle]
    /\ srch = [s \in Searches |-> SearchIdle]
    /\ lastRepoDelete = None
    /\ read = ReadIdle

\* a caller of ImageRepository.SearchSimilarImages(targetEmbedding, limit)
RepoSearch(s) ==
    /\ srch[s].pc = "idle"
    /\ \E target \in TargetVectors, limit \in 1..MaxK : SearchScan(s, target, limit)
    /\ UNCHANGED <<images, embeddings, files, up, del, lastRepoDelete, read>>

SearchNext == RepoSearch(1) \/ SearchJoin(1)

SearchSpec == SearchInit /\ [][SearchNext]_vars

----------------------------------------------------------------------------
(* imageService.GetImage and imageService.ListImages over                  *)
(* imageRepository.GetImageByID and imageRepository.ListImages             *)

Min(a, b) == IF a < b THEN a ELSE b

\* repository ListImages, line 59: Model(&model.Image{}).Count(&total)
Count(tbl) == Len(tbl)

\* the bug of a 0-based page number
OffsetOfPage(page, pageSize) == page * pageSize
\* line 62: offset := (page - 1) * pageSize
Offset(page, pageSize) == (page - 1) * pageSize

\* line 63: Offset(offset).Limit(pageSize).Find(&images): the query has no
\* ORDER BY, SQLite walks the table in the order of its rows; the rows after
\* the first offset ones, at most limit of them
Find(tbl, offset, limit) ==
    IF offset >= Len(tbl) THEN <<>>
    ELSE SubSeq(tbl, offset + 1, Min(offset + limit, Len(tbl)))

\* the bug of a total that counts the rows of the page
RepoListImagesPageTotal(tbl, page, pageSize) ==
    [images |-> Find(tbl, Offset(page, pageSize), pageSize),
     total |-> Len(Find(tbl, Offset(page, pageSize), pageSize))]
\* repository ListImages, lines 53-68
RepoListImages(tbl, page, pageSize) ==
    [images |-> Find(tbl, Offset(page, pageSize), pageSize),
     total |-> Count(tbl)]

\* service ListImages, lines 174-179: the arguments passed on
ListPage(page) == IF page < 1 THEN 1 ELSE page
ListPageSize(pageSize) ==
    IF pageSize < 1 \/ pageSize > MaxPageSize THEN DefaultPageSize ELSE pageSize

\* service ListImages, lines 173-194
ListImages(tbl, page, pageSize) ==
    RepoListImages(tbl, ListPage(page), ListPageSize(pageSize))

\* the arguments of a request: Handler.ListImages passes on any integers
PageArgs == -1..MaxPage
PageSizeArgs == -1..(MaxPageSize + 1)

\* ListImages(page, pageSize) called and returned
ListRequest(page, pageSize) ==
    /\ read.pc = "idle"
    /\ LET r == ListImages(images, page, pageSize)
       IN  read' = [pc |-> "done", op |-> "list", page |-> page,
                    pageSize |-> pageSize, images |-> r.images,
                    total |-> r.total, err |-> FALSE]
    /\ UNCHANGED <<images, embeddings, files, up, del, srch, lastRepoDelete>>

\* the bug of a lookup by FirstOrCreate: a missing row is inserted
GetImageOrCreate(id) ==
    /\ read.pc = "idle"
    /\ read' = [pc |-> "done", op |-> "get", id |-> id,
                image |-> IF HasImage(images, id) THEN ImageByID(images, id)
                                                  ELSE [StoredImage(id) EXCEPT !.FileName = ""],
                err |-> FALSE]
    /\ images' = IF HasImage(images, id) THEN images
                 ELSE Append(images, [StoredImage(id) EXCEPT !.FileName = ""])
    /\ UNCHANGED <<embeddings, files, up, del, srch, lastRepoDelete>>

\* GetImage(id) called and returned: the row, or gorm.ErrRecordNotFound
GetImage(id) ==
    /\ read.pc = "idle"
    /\ read' = [pc |-> "done", op |-> "get", id |-> id,
                image |-> IF HasImage(images, id) THEN ImageByID(images, id)
                                                  ELSE None,
                err |-> ~HasImage(images, id)]
    /\ UNCHANGED <<images, embeddings, files, up, del, srch, lastRepoDelete>>

\* the identifiers of the rows of a page
IDsOf(rows) == [i \in 1..Len(rows) |-> rows[i].ID]

\* the pages a caller reads to see total records: ceil(total / pageSize)
PageCount(total, pageSize) == (total + pageSize - 1) \div pageSize

\* a caller that reads every page: the pages read so far, their identifiers
Enumeration(pageSize, page, r, seen) ==
    [pc |-> IF page >= PageCount(r.total, pageSize) THEN "done" ELSE "enum",
     op |-> "enum", pageSize |-> pageSize, page |-> page,
     seen |-> seen \o IDsOf(r.images), total |-> r.total, err |-> FALSE]

\* the caller reads page 1 with a page size of the accepted range
EnumerateFirst(pageSize) ==
    /\ read.pc = "idle"
    /\ read' = Enumeration(pageSize, 1, ListImages(images, 1, pageSize), <<>>)
    /\ UNCHANGED <<images, embeddings, files, up, del, srch, lastRepoDelete>>

\* the caller reads the next page
EnumerateNext ==
    /\ read.pc = "enum"
    /\ read' = Enumeration(read.pageSize, read.page + 1,
                           ListImages(images, read.page + 1, read.pageSize),
                           read.seen)
    /\ UNCHANGED <<images, embeddings, files, up, del, srch, lastRepoDelete>>

\* a blob that parses and one that does not
ReadBlobs == {Marshal(<<0, 0, 0>>), CorruptBlob}

\* the files of the stored images 1..n
StoredFiles(n) ==
    [p \in {StoredImage(i).FilePath : i \in 1..n} |->
        [w |-> StoredImage(1).Width, h |-> StoredImage(1).Height,
         size |-> StoredImage(1).Size]]

\* the stores the read operations are applied to: n images, their files, and
\* embeddings of the first of them
ReadInit ==
    /\ \E n \in 0..MaxImages :
         /\ images = StoredImages(n, 1..n)
         /\ files = StoredFiles(n)
         /\ \E m \in 0..Min(n, MaxStored) :
              \E blobs \in [1..m -> ReadBlobs] :
                 embeddings = [i \in 1..m |-> StoredEmbedding(i, blobs[i])]
    /\ up = [u \in Uploads |-> UploadIdle]
    /\ del = [d \in Deletes |-> DeleteIdle]
    /\ srch = [s \in Searches |-> SearchIdle]
    /\ lastRepoDelete = None
    /\ read = ReadIdle

\* one read operation is applied to the store
ReadNext ==
    \/ \E page \in PageArgs, pageSize \in PageSizeArgs :
         srch[1].pc = "idle" /\ ListRequest(page, pageSize)
    \/ \E id \in 1..(MaxImages + 1) :
         srch[1].pc = "idle" /\ GetImage(id)
    \/ \E pageSize \in 1..MaxPageSize :
         srch[1].pc = "idle" /\ EnumerateFirst(pageSize)
    \/ srch[1].pc = "idle" /\ EnumerateNext
    \/ read.pc = "idle" /\ SearchImagesByImage(1)
    \/ read.pc = "idle" /\ SearchJoin(1)

ReadSpec == ReadInit /\ [][ReadNext]_vars

----------------------------------------------------------------------------
(* DeleteImage requests racing with SearchImagesByImage requests over a    *)
(* store of images that were uploaded before                               *)

\* blobs that parse, of the length generateEmbedding produces
RaceBlobs == {Marshal(<<0, 0, 0>>), Marshal(<<1, 0, 0>>), Marshal(<<10, 10, 10>>)}

RaceInit ==
    /\ \E n \in 1..MaxStored :
         /\ images = StoredImages(n, 1..n)
         /\ files = StoredFiles(n)
         /\ \E blobs \in [1..n -> RaceBlobs] :
              embeddings = [i \in 1..n |-> StoredEmbedding(i, blobs[i])]
    /\ up = [u \in Uploads |-> UploadIdle]
    /\ del = [d \in Deletes |-> DeleteIdle]
    /\ srch = [s \in Searches |-> SearchIdle]
    /\ lastRepoDelete = None
    /\ read = ReadIdle

RaceNext ==
    \/ \E d \in Deletes :
         \/ DeleteGetImage(d)
         \/ DeleteRemoveFile(d)
         \/ DeleteRepoDelete(d)
    \/ \E s \in Searches :
         \/ SearchImagesByImage(s)
         \/ SearchJoin(s)

RaceSpec == RaceInit /\ [][RaceNext]_vars

----------------------------------------------------------------------------
(* What the claims speak of *)

\* the rows of image_embeddings that reference image id
EmbeddingsOf(id) == {i \in 1..Len(embeddings) : embeddings[i].ImageID = id}

\* no UploadImage and no DeleteImage request is between two of its steps
Quiescent ==
    /\ \A u \in Uploads : up[u].pc \in {"idle", "done"}
    /\ \A d \in Deletes : del[d].pc \in {"idle", "done"}

\* the DeleteImage requests that found image id and went on to remove it
DeletesOf(id) ==
    {d \in Deletes : del[d].pc # "idle" /\ del[d].id = id /\ del[d].path # NoPath}

\* the ids whose DeleteImage request has returned nil
DeletedOk ==
    {del[d].id : d \in {x \in Deletes : del[x].pc = "done" /\ del[x].err = "nil"}}

\* GetImage(id) returns gorm.ErrRecordNotFound
GetNotFound(id) == ~HasImage(images, id)

\* lines 208-217 run at once over the tables as they are
RECURSIVE JoinAll(_)
JoinAll(ranked) ==
    IF ranked = <<>> THEN <<>>
    ELSE IF HasImage(images, Head(ranked).imageID)
         THEN <<Head(ranked).imageID>> \o JoinAll(Tail(ranked))
         ELSE JoinAll(Tail(ranked))

\* the ids a search for target may return from the tables as they are
SearchableIDs(target, limit) ==
    IF \E i \in 1..Len(embeddings) : ~UnmarshalOk(embeddings[i].Embedding)
    THEN {}
    ELSE UNION {{JoinAll(Truncate(sorted, limit))[i] :
                    i \in 1..Len(JoinAll(Truncate(sorted, limit)))} :
                sorted \in SortSlice(Distances(target, DecodeRows(embeddings)))}

ResultIDs(r) == {r.images[i].ID : i \in 1..Len(r.images)}

----------------------------------------------------------------------------
(* C1 *)

\* C1: whenever no upload and no delete is between two of its steps, every
\* row of images has exactly one row of image_embeddings referencing it.
\* The code violates it: the error of the rollback DeleteImage is dropped.
C1_ExactlyOneEmbeddingPerImage ==
    Quiescent =>
        \A i \in 1..Len(images) : Cardinality(EmbeddingsOf(images[i].ID)) = 1

\* C2: no row of image_embeddings references an image that has no row.
\* The code violates it: a delete between CreateImage and
\* CreateImageEmbedding leaves the embedding of a deleted image.
C2_NoOrphanEmbedding ==
    \A i \in 1..Len(embeddings) : HasImage(images, embeddings[i].ImageID)

\* C3: an UploadImage that has returned an error has left no file, no image
\* row and no embedding row of its own.
\* The code violates it: an error of Encode or Stat returns with the file
\* in place.
C3_FailedUploadLeavesNothing ==
    \A u \in Uploads :
        (up[u].pc = "done" /\ up[u].err) =>
            /\ up[u].path # NoPath => ~FileExists(files, up[u].path)
            /\ up[u].id # NilUUID =>
                 (~HasImage(images, up[u].id) /\ EmbeddingsOf(up[u].id) = {})

\* C4: once an UploadImage whose CreateImageEmbedding failed has returned,
\* GetImage of its id is not found and its file is gone.
\* The code violates it: the rollback's own failures are dropped.
C4_EmbeddingFailureRollsBack ==
    \A u \in Uploads :
        (up[u].pc = "done" /\ up[u].failedAt = "createEmbedding") =>
            (GetNotFound(up[u].id) /\ ~FileExists(files, up[u].path))

\* C5: when the only DeleteImage of an uploaded image has returned the error
\* of the database transaction, the file, the image row and the embedding
\* row are all still there.
\* The code violates it: the file is removed before the transaction.
C5_DeleteAllOrNothing ==
    \A d \in Deletes :
        ( /\ del[d].pc = "done" /\ del[d].stage = "repoDelete"
          /\ del[d].err = "PersistenceError"
          /\ DeletesOf(del[d].id) = {d}
          /\ \E u \in Uploads :
               up[u].pc = "done" /\ ~up[u].err /\ up[u].id = del[d].id )
        => /\ HasImage(images, del[d].id)
           /\ EmbeddingsOf(del[d].id) # {}
           /\ FileExists(files, del[d].path)

----------------------------------------------------------------------------
(* C6 *)

ValidTargets == {generateEmbedding(Resize(in)) : in \in {x \in Inputs : Decodes(x)}}

C6_Deleted ==
    \A d \in Deletes :
        (del[d].pc = "done" /\ del[d].err = "nil") =>
            /\ GetNotFound(del[d].id)
            /\ ~FileExists(files, del[d].path)
            /\ \A target \in ValidTargets :
                  del[d].id \notin SearchableIDs(target, DefaultLimit)

C6_Joined ==
    \A s \in Searches :
        srch[s].pc = "join" =>
            (ResultIDs(srch'[s]) \ ResultIDs(srch[s])) \cap DeletedOk = {}

\* C6: once DeleteImage(id) has returned nil, GetImage(id) is not found, the
\* file of the image is gone, a search for any target over the tables does
\* not return the image, and no search in progress adds it to its result.
C6_DeleteComplete == [] C6_Deleted /\ [][C6_Joined]_vars

\* an uploaded image was deleted with success and a search has since
\* returned another image
C6_Witness ==
    \E s \in Searches :
        /\ srch[s].pc = "done" /\ ~srch[s].err /\ srch[s].images # <<>>
        /\ \E id \in DeletedOk :
             \E u \in Uploads : up[u].pc = "done" /\ ~up[u].err /\ up[u].id = id
        /\ DeletedOk \cap ResultIDs(srch[s]) = {}

----------------------------------------------------------------------------
(* C7 *)

\* C7: DeleteImage for an id with no image row reports an error and no
\* success: the service's DeleteImage returns NotFound from GetImageByID, and
\* a call of the repository's DeleteImage for a missing id returns an error.
\* The code violates it: a transaction that deletes no row commits and the
\* repository returns nil.
C7_DeleteMissingFails ==
    /\ \A d \in Deletes :
          (del[d].pc = "done" /\ del[d].stage = "get") => del[d].err = "NotFound"
    /\ lastRepoDelete # None => (~lastRepoDelete.found => lastRepoDelete.err)

----------------------------------------------------------------------------
(* C8 *)

\* C8: after an UploadImage has returned an image and no DeleteImage has
\* found that image, GetImage(id) returns the record the upload returned,
\* the file at its FilePath exists with the record's width, height and size,
\* and exactly one embedding row references the image.
C8_RoundTrip ==
    \A u \in Uploads :
        (up[u].pc = "done" /\ ~up[u].err /\ DeletesOf(up[u].id) = {}) =>
            /\ HasImage(images, up[u].id)
            /\ ImageByID(images, up[u].id) = up[u].image
            /\ up[u].image.ID = up[u].id
            /\ FileExists(files, up[u].image.FilePath)
            /\ files[up[u].image.FilePath].w = up[u].image.Width
            /\ files[up[u].image.FilePath].h = up[u].image.Height
            /\ files[up[u].image.FilePath].size = up[u].image.Size
            /\ Cardinality(EmbeddingsOf(up[u].id)) = 1

\* an upload has returned an image that no delete has found, while another
\* request has been through the store
C8_Witness ==
    \E u \in Uploads :
        /\ up[u].pc = "done" /\ ~up[u].err /\ DeletesOf(up[u].id) = {}
        /\ up[u].image.Width = CanonicalWidth
        /\ \E v \in Uploads \ {u} : up[v].pc = "done"

----------------------------------------------------------------------------
(* C9 and C10, under SearchSpec: embedding i belongs to image i *)

StoredVector(id) == Unmarshal(embeddings[id].Embedding)

\* d is the Euclidean distance of a and b in thousandths, rounded down
IsEuclideanDistance(d, a, b) ==
    /\ d >= 0
    /\ d * d <= Scale * Scale * SumSq(a, b, 1)
    /\ (d + 1) * (d + 1) > Scale * Scale * SumSq(a, b, 1)

\* a stored row the target can be compared with and whose image exists
Comparable(id, target) ==
    /\ UnmarshalOk(embeddings[id].Embedding)
    /\ Len(StoredVector(id)) = Len(target)
    /\ HasImage(images, id)

\* the stored vectors of the ordering example: A, B, C
ExampleStore ==
    /\ Len(embeddings) = 3 /\ Len(images) = 3
    /\ StoredVector(1) = <<0, 0, 0>>
    /\ StoredVector(2) = <<1, 0, 0>>
    /\ StoredVector(3) = <<10, 10, 10>>

\* C9: a search that returns has at most limit entries, in ascending order
\* of distance; the distance of a returned comparable entry is its Euclidean
\* distance to the target; no comparable stored vector left out is strictly
\* closer than a returned one; and the example (A, B, C stored, target
\* [0,0,0], limit 2) returns A at 0 and B at 1, in that order.
C9_TopKAscending ==
    LET r == srch[1]
    IN  (r.pc = "done" /\ ~r.err) =>
            /\ Len(r.images) <= r.limit
            /\ Len(r.distances) = Len(r.images)
            /\ \A i, j \in 1..Len(r.distances) :
                  i < j => r.distances[i] <= r.distances[j]
            /\ \A i \in 1..Len(r.images) :
                  Comparable(r.images[i].ID, r.target) =>
                      IsEuclideanDistance(r.distances[i], r.target,
                                          StoredVector(r.images[i].ID))
            /\ \A id \in 1..Len(embeddings) :
                  (Comparable(id, r.target) /\ id \notin ResultIDs(r)) =>
                      \A j \in 1..Len(r.images) :
                          Comparable(r.images[j].ID, r.target) =>
                              ~(SumSq(r.target, StoredVector(id), 1)
                                  < SumSq(r.target, StoredVector(r.images[j].ID), 1))
            /\ (ExampleStore /\ r.target = <<0, 0, 0>> /\ r.limit = 2) =>
                  (/\ Len(r.images) = 2
                   /\ r.images[1].ID = 1 /\ r.distances[1] = 0
                   /\ r.images[2].ID = 2 /\ r.distances[2] = Scale)

\* the search of the example has returned
C9_Witness ==
    /\ srch[1].pc = "done" /\ ~srch[1].err
    /\ ExampleStore /\ srch[1].target = <<0, 0, 0>> /\ srch[1].limit = 2
    /\ Len(srch[1].images) = 2

\* C10: a stored vector whose length differs from the target's is in no
\* result of a search that returns.
\* The code violates it: the vector is ranked at distance math.MaxFloat32
\* and returned when the limit leaves room.
C10_MismatchExcluded ==
    LET r == srch[1]
    IN  (r.pc = "done" /\ ~r.err) =>
            \A i \in 1..Len(r.images) :
                Len(StoredVector(r.images[i].ID)) = Len(r.target)

----------------------------------------------------------------------------
(* C11 to C13, under ReadSpec: the store does not change *)

\* C11: a search over a table image_embeddings with no row returns, and when
\* its upload decodes it returns no image, no distance and no error.
C11_EmptyStoreSearch ==
    \A s \in Searches :
        (Len(embeddings) = 0 /\ srch[s].pc # "idle") =>
            /\ srch[s].pc = "done"
            /\ srch[s].target # <<>> =>
                 /\ ~srch[s].err
                 /\ srch[s].images = <<>>
                 /\ srch[s].distances = <<>>

\* a search over images without embeddings has returned
C11_Witness ==
    /\ Len(embeddings) = 0 /\ Len(images) > 0
    /\ srch[1].pc = "done" /\ srch[1].target # <<>>

\* C12: a caller that has read the pages 1..ceil(N / pageSize) of an
\* unchanged store of N images, with a page size of 1..100, has seen the
\* identifier of every stored image exactly once.
C12_PaginationComplete ==
    (read.pc = "done" /\ read.op = "enum") =>
        /\ Len(read.seen) = Len(images)
        /\ \A i \in 1..Len(images) :
              \E j \in 1..Len(read.seen) : read.seen[j] = images[i].ID
        /\ \A i, j \in 1..Len(read.seen) : i # j => read.seen[i] # read.seen[j]

\* a caller has read three pages or more of a store of more than ten images
C12_Witness ==
    /\ read.pc = "done" /\ read.op = "enum"
    /\ read.page >= 3 /\ Len(images) > DefaultPageSize

\* C13: ListImages serves a page below 1 as page 1, a page size of 1..100 as
\* given and a page size above 100 as 100 (a page size below 1 is left
\* open here: the default or the minimum).
\* The code violates it: a page size above 100 is served as 10.
C13_PageSizeClamped ==
    (read.pc = "done" /\ read.op = "list") =>
        LET page == IF read.page < 1 THEN 1 ELSE read.page
        IN  /\ read.pageSize \in 1..MaxPageSize =>
                 read.images = Find(images, (page - 1) * read.pageSize,
                                    read.pageSize)
            /\ read.pageSize > MaxPageSize =>
                 read.images = Find(images, (page - 1) * MaxPageSize, MaxPageSize)

----------------------------------------------------------------------------
(* C14, under SearchSpec: embedding i belongs to image i *)

\* C14: a search over a store with rows whose blob does not parse does not
\* panic, returns no error, and returns none of those rows.
\* The code violates it: the row's slot in the slice stays nil and the
\* distance loop dereferences it.
C14_CorruptSkipped ==
    LET r == srch[1]
    IN  /\ r.pc # "panic"
        /\ r.pc = "done" =>
             /\ ~r.err
             /\ \A i \in 1..Len(r.images) :
                   UnmarshalOk(embeddings[r.images[i].ID].Embedding)

----------------------------------------------------------------------------
(* C15, under RaceSpec: every image has its embedding, no upload runs *)

C15_Returned ==
    \A s \in Searches :
        /\ srch[s].pc # "panic"
        /\ (srch[s].pc = "done" /\ srch[s].target # <<>>) =>
             /\ ~srch[s].err
             /\ Len(srch[s].distances) = Len(srch[s].images)
             /\ \A i, j \in 1..Len(srch[s].distances) :
                   i < j => srch[s].distances[i] <= srch[s].distances[j]
             /\ \A i \in 1..Len(images) :
                   EmbeddingsOf(images[i].ID) # {} =>
                       images[i].ID \in ResultIDs(srch[s])

C15_Joined ==
    \A s \in Searches :
        srch[s].pc = "join" =>
            (ResultIDs(srch'[s]) \ ResultIDs(srch[s])) \subseteq ImageIDs(images)

\* C15: a search whose scan saw the embedding of an image that a DeleteImage
\* removes before the join does not fail: the join adds no image whose row
\* is gone, and the search returns without error, in ascending order of
\* distance, every image that is still stored with its embedding.
C15_SearchSurvivesDelete == [] C15_Returned /\ [][C15_Joined]_vars

\* a search has joined an entry, the next entry of its ranking is an image
\* whose DeleteImage has returned nil since the scan, and an entry follows
C15_Witness ==
    \E s \in Searches :
        /\ srch[s].pc = "join"
        /\ Len(srch[s].images) >= 1
        /\ Len(srch[s].ranked) >= 2
        /\ Head(srch[s].ranked).imageID \in DeletedOk
        /\ ~HasImage(images, Head(srch[s].ranked).imageID)

----------------------------------------------------------------------------
(* C16, under SearchSpec: row i of image_embeddings was inserted i-th *)

\* C16: of two returned entries at the same distance, the one inserted
\* earlier comes first.
\* The code violates it: sort.Slice is not a stable sort, entries at the
\* same distance may come out in either order.
C16_TiesByInsertionOrder ==
    LET r == srch[1]
    IN  (r.pc = "done" /\ ~r.err) =>
            \A i, j \in 1..Len(r.images) :
                (i < j /\ r.distances[i] = r.distances[j]) =>
                    r.images[i].ID < r.images[j].ID

----------------------------------------------------------------------------
(* C17, under Spec *)

\* C17: every row of image_embeddings has an identifier that is not uuid.Nil
\* and that no other row has, and the embedding an upload is about to insert
\* does not collide with a stored one.
\* The code violates it: CreateImageEmbedding inserts a TempEmbedding, which
\* has no BeforeCreate hook, with the ID the service left at uuid.Nil.
C17_EmbeddingIdentityUnique ==
    /\ \A i \in 1..Len(embeddings) : embeddings[i].ID # NilUUID
    /\ \A i, j \in 1..Len(embeddings) :
          i # j => embeddings[i].ID # embeddings[j].ID
    /\ \A u \in Uploads :
          up[u].pc = "createEmbedding" =>
              CreateImageEmbeddingOk(embeddings, NewImageEmbedding(u))

----------------------------------------------------------------------------
(* C18 and C19, under ReadSpec *)

\* C18: a step of a GetImage, ListImages or SearchImagesByImage request,
\* whatever its arguments and its outcome, leaves the rows of images, the
\* rows of image_embeddings and the files as they were.
C18_ReadOnly ==
    [][(read' # read \/ srch' # srch) =>
          (images' = images /\ embeddings' = embeddings /\ files' = files)]_vars

\* a GetImage of an identifier that is not stored has returned its error
C18_Witness ==
    /\ read.pc = "done" /\ read.op = "get" /\ read.err
    /\ Len(images) > 0 /\ Len(embeddings) > 0

----------------------------------------------------------------------------
(* C20, under Spec *)

\* C20: once an UploadImage whose CreateImage failed has returned, its file
\* is gone and no row of images or image_embeddings is of that upload.
\* The code violates it: the error of os.Remove is dropped (the file is
\* still open when it is removed), and the upload returns with the file in
\* place.
C20_CreateImageFailureRemovesFile ==
    \A u \in Uploads :
        (up[u].pc = "done" /\ up[u].failedAt = "createImage") =>
            /\ ~FileExists(files, up[u].path)
            /\ ~HasImage(images, up[u].id)
            /\ EmbeddingsOf(up[u].id) = {}

----------------------------------------------------------------------------
(* C21, under SearchSpec: embedding i belongs to image i *)

\* C21: the images and the distances of a search are lists of the same
\* length, while the join runs and when it has returned, and the i-th
\* distance returned is the distance of the target to the stored vector of
\* the i-th image, also when entries were skipped at the join; so
\* distances[i] exists for every returned image i.
C21_ResultsAligned ==
    LET r == srch[1]
    IN  /\ r.pc \in {"join", "done"} => Len(r.distances) = Len(r.images)
        /\ (r.pc = "done" /\ ~r.err) =>
             \A i \in 1..Len(r.images) :
                 r.distances[i] =
                     calculateEuclideanDistance(r.target,
                                                StoredVector(r.images[i].ID))

\* a search has returned an image ranked after an entry it skipped because
\* the image of that entry has no row
C21_Witness ==
    LET r == srch[1]
    IN  /\ r.pc = "done" /\ ~r.err
        /\ Len(r.images) >= 1
        /\ \E id \in 1..Len(embeddings) :
              /\ ~HasImage(images, id)
              /\ calculateEuclideanDistance(r.target, StoredVector(id))
                   < r.distances[Len(r.distances)]

----------------------------------------------------------------------------
(* C22, under RaceSpec: every image has its file and its embedding *)

\* C22: of two DeleteImage requests that found the same image, at most one
\* returns nil, and when both have returned the image is not left with its
\* rows but no file, or with its file but no rows.
\* The code violates it: the file is removed before the transaction, so a
\* request whose transaction fails leaves the rows without the file, and the
\* other request fails at os.Remove and cannot complete the deletion.
C22_ConcurrentDeletes ==
    \A d, e \in Deletes :
        ( /\ d # e
          /\ del[d].pc = "done" /\ del[e].pc = "done"
          /\ del[d].id = del[e].id
          /\ del[d].path # NoPath /\ del[e].path # NoPath )
        => /\ ~(del[d].err = "nil" /\ del[e].err = "nil")
           /\ (~HasImage(images, del[d].id) /\ EmbeddingsOf(del[d].id) = {})
                 <=> ~FileExists(files, del[d].path)

====
